---------------------------- MODULE Spec2Model ----------------------------
(***************************************************************************)
(* Model of src/backend/scrape_resorts.py: the resort scraper's main loop, *)
(* the browser fetch, the fence clean-up of the completion text and the    *)
(* JSON decode of the cleaned text.                                        *)
(*                                                                         *)
(* Texts are sequences of one-character strings.                           *)
(***************************************************************************)
EXTENDS Naturals, Integers, Sequences, FiniteSets, TLC

(***************************************************************************)
(* Bounds of the model.                                                    *)
(***************************************************************************)
\* longest registry explored
MaxResorts == 2
\* most chunks a generated completion text is made of
MaxChunks == 3

(***************************************************************************)
(* Text primitives (Python str).                                           *)
(***************************************************************************)
\* the characters str.strip() and the JSON scanner treat as whitespace
Whitespace == {" ", "\n"}

Digits == {"0", "1", "2", "3", "4", "5", "6", "7", "8", "9"}

\* the backquote character, which a TLA+ string cannot hold, is written "^"
BQ == "^"

\* the json fence opener: three backquotes and "json"
FenceJson == <<BQ, BQ, BQ, "j", "s", "o", "n">>

\* the closing fence: three backquotes
Fence == <<BQ, BQ, BQ>>

\* F applied to the value of v, with v evaluated once
With(v, F(_)) == CHOOSE out \in {F(x) : x \in {v}} : TRUE

StartsWith(s, i, lit) ==
    /\ i + Len(lit) - 1 <= Len(s)
    /\ SubSeq(s, i, i + Len(lit) - 1) = lit

\* str.replace(old, ""): every non-overlapping occurrence, left to right
RECURSIVE Remove(_, _)
Remove(s, old) ==
    IF Len(s) < Len(old) THEN s
    ELSE IF StartsWith(s, 1, old)
         THEN Remove(SubSeq(s, Len(old) + 1, Len(s)), old)
         ELSE <<Head(s)>> \o Remove(Tail(s), old)

RECURSIVE LStrip(_)
LStrip(s) ==
    IF s # <<>> /\ Head(s) \in Whitespace THEN LStrip(Tail(s)) ELSE s

RECURSIVE RStrip(_)
RStrip(s) ==
    IF s # <<>> /\ s[Len(s)] \in Whitespace
    THEN RStrip(SubSeq(s, 1, Len(s) - 1))
    ELSE s

\* str.strip()
Strip(s) == With(LStrip(s), LAMBDA l : RStrip(l))

\* clean_json(text)
clean_json(text) ==
    With(Remove(text, FenceJson), LAMBDA a :
        With(Remove(a, Fence), LAMBDA b : Strip(b)))

(***************************************************************************)
(* json.loads.  A decoded value is [t |-> kind, v |-> payload]:            *)
(*   "null"  v = <<>>            None                                      *)
(*   "bool"  v = <<"t">>/<<"f">> True / False                              *)
(*   "num"   v = the digits      int                                       *)
(*   "str"   v = the characters  str                                       *)
(*   "arr"   v = the elements    list                                      *)
(*   "obj"   v = <<key, value>> pairs in insertion order   dict            *)
(* A scan result is [ok, val, pos]: pos is the index after the value.      *)
(* The scanner covers the grammar without escapes, fractions or exponents. *)
(***************************************************************************)
JVal(kind, payload) == [t |-> kind, v |-> payload]

JFail == [ok |-> FALSE, val |-> JVal("null", <<>>), pos |-> 0]

JOk(val, pos) == [ok |-> TRUE, val |-> val, pos |-> pos]

RECURSIVE SkipWS(_, _)
SkipWS(s, i) ==
    IF i <= Len(s) /\ s[i] \in Whitespace THEN SkipWS(s, i + 1) ELSE i

\* index after the run of digits starting at i
RECURSIVE DigitsEnd(_, _)
DigitsEnd(s, i) ==
    IF i <= Len(s) /\ s[i] \in Digits THEN DigitsEnd(s, i + 1) ELSE i

\* index of the quote closing the string whose first character is at i; 0 if
\* the string is unterminated or holds a control character
RECURSIVE StringEnd(_, _)
StringEnd(s, i) ==
    IF i > Len(s) THEN 0
    ELSE IF s[i] = "\"" THEN i
    ELSE IF s[i] = "\n" THEN 0
    ELSE StringEnd(s, i + 1)

ScanString(s, i) ==
    LET e == StringEnd(s, i + 1)
    IN  IF e = 0 THEN JFail
        ELSE JOk(JVal("str", SubSeq(s, i + 1, e - 1)), e + 1)

ScanNumber(s, i) ==
    LET neg == s[i] = "-"
        d   == IF neg THEN i + 1 ELSE i
        e   == IF d <= Len(s) /\ s[d] = "0" THEN d + 1 ELSE DigitsEnd(s, d)
    IN  IF e = d THEN JFail
        ELSE JOk(JVal("num", SubSeq(s, i, e - 1)), e)

\* dict[key] = value: a repeated key keeps its place and takes the new value
DictSet(pairs, key, val) ==
    IF \E k \in 1..Len(pairs) : pairs[k][1] = key
    THEN [k \in 1..Len(pairs) |->
            IF pairs[k][1] = key THEN <<key, val>> ELSE pairs[k]]
    ELSE Append(pairs, <<key, val>>)

RECURSIVE ScanValue(_, _)
RECURSIVE ScanElements(_, _, _)
RECURSIVE ScanMembers(_, _, _)

\* the elements of an array from index i on, acc the elements already read
ScanElements(s, i, acc) ==
    With(ScanValue(s, i), LAMBDA r :
        LET j == SkipWS(s, r.pos)
        IN  IF ~r.ok \/ j > Len(s) THEN JFail
            ELSE IF s[j] = "]" THEN JOk(JVal("arr", Append(acc, r.val)), j + 1)
            ELSE IF s[j] = ","
                 THEN ScanElements(s, SkipWS(s, j + 1), Append(acc, r.val))
            ELSE JFail)

\* the members of an object from the opening quote at i on
ScanMembers(s, i, acc) ==
    IF i > Len(s) \/ s[i] # "\"" THEN JFail
    ELSE
      With(ScanString(s, i), LAMBDA k :
        LET c == SkipWS(s, k.pos)
        IN  IF ~k.ok \/ c > Len(s) \/ s[c] # ":" THEN JFail
            ELSE
              With(ScanValue(s, SkipWS(s, c + 1)), LAMBDA r :
                LET j == SkipWS(s, r.pos)
                IN  IF ~r.ok \/ j > Len(s) THEN JFail
                    ELSE IF s[j] = "}"
                         THEN JOk(JVal("obj", DictSet(acc, k.val.v, r.val)), j + 1)
                    ELSE IF s[j] = ","
                         THEN ScanMembers(s, SkipWS(s, j + 1),
                                          DictSet(acc, k.val.v, r.val))
                    ELSE JFail))

ScanValue(s, i) ==
    IF i > Len(s) THEN JFail
    ELSE IF s[i] = "\"" THEN ScanString(s, i)
    ELSE IF s[i] = "[" THEN
        LET j == SkipWS(s, i + 1)
        IN  IF j <= Len(s) /\ s[j] = "]"
            THEN JOk(JVal("arr", <<>>), j + 1)
            ELSE ScanElements(s, j, <<>>)
    ELSE IF s[i] = "{" THEN
        LET j == SkipWS(s, i + 1)
        IN  IF j <= Len(s) /\ s[j] = "}"
            THEN JOk(JVal("obj", <<>>), j + 1)
            ELSE ScanMembers(s, j, <<>>)
    ELSE IF StartsWith(s, i, <<"n", "u", "l", "l">>)
        THEN JOk(JVal("null", <<>>), i + 4)
    ELSE IF StartsWith(s, i, <<"t", "r", "u", "e">>)
        THEN JOk(JVal("bool", <<"t">>), i + 4)
    ELSE IF StartsWith(s, i, <<"f", "a", "l", "s", "e">>)
        THEN JOk(JVal("bool", <<"f">>), i + 5)
    ELSE IF s[i] \in Digits \cup {"-"} THEN ScanNumber(s, i)
    ELSE JFail

\* json.loads(s): ok = FALSE stands for JSONDecodeError
json_loads(s) ==
    With(s, LAMBDA t :
        With(ScanValue(t, SkipWS(t, 1)), LAMBDA r :
            IF r.ok /\ SkipWS(t, r.pos) = Len(t) + 1 THEN r ELSE JFail))

\* len(x) raises TypeError unless x is a list, a dict or a str
HasLen(val) == val.t \in {"arr", "obj", "str"}

IsList(val) == val.t = "arr"

EmptyList == JVal("arr", <<>>)

(***************************************************************************)
(* The registry, the environment and the program state.                    *)
(***************************************************************************)
\* Python's None, also what dict.get returns for a missing key
None == "None"

\* truthiness of a str-or-None value: "if x:" / "if not x:"
Truthy(x) == x # None /\ x # ""

\* the id and the name of the k-th registry entry: opaque to the program,
\* which copies them, and different from entry to entry
ResortId(k) == <<"id", k>>

ResortName(k) == <<"name", k>>

\* the k-th registry entry, each URL missing, empty or set
ResortConfigs(k) ==
    [id : {ResortId(k)}, name : {ResortName(k)},
     lift_url : {None, "", "lift-url"},
     weather_url : {None, "", "weather-url"}]

Registries ==
    UNION {{r \in [1..n -> UNION {ResortConfigs(k) : k \in 1..n}] :
               \A k \in 1..n : r[k] \in ResortConfigs(k)} : n \in 0..MaxResorts}

\* what page.content() can return
Pages == {"<html>"}

\* time.sleep(5)
SettleDelay == 5

Q == "\""

\* texts the completion service returns: the array asked for, the same in a
\* json fence, an apology, and a JSON value that is no array
ArrayText == <<"[", "{", Q, "n", "a", "m", "e", Q, ":", Q, "V", Q, "}", "]">>

SampleTexts ==
    { ArrayText,
      FenceJson \o <<"\n">> \o ArrayText \o <<"\n">> \o Fence,
      <<"S", "o", "r", "r", "y", ".">>,
      <<"n", "u", "l", "l">> }

VARIABLES
    api_key,      \* os.getenv("GEMINI_API_KEY")
    registry,     \* RESORTS
    pc,           \* position of main
    i,            \* index in RESORTS of the resort being processed
    sec,          \* section being processed: "lifts" or "weather"
    resort_data,  \* main's resort_data
    results,      \* main's results
    html,         \* main's html
    resp_text,    \* resp.text of the last completion
    playwright,   \* a Playwright driver is running (inside the with block)
    browser,      \* fetch_html_with_browser's browser: "none", "open", "closed"
    content,      \* fetch_html_with_browser's content
    held,         \* number of browsers launched and not yet released
    clock,        \* seconds since the process started
    file,         \* OUTPUT_FILE: [kind, doc]
    calls,        \* history: the calls made (fetch, complete, loads, write), in order
    cj            \* state of the clean_json experiment (CleanSpec only)

vars == <<api_key, registry, pc, i, sec, resort_data, results, html, resp_text,
          playwright, browser, content, held, clock, file, calls, cj>>

NoResults == [last_updated |-> <<>>, resorts |-> <<>>]

NoResort == [id |-> <<>>, name |-> <<>>, lifts |-> EmptyList, weather |-> EmptyList]

\* the output of an earlier run, in its directory
PriorFile == [kind |-> "prior", doc |-> NoResults]

CjOff == [pc |-> "off", text |-> <<>>, once |-> <<>>, twice |-> <<>>,
          direct |-> JFail, fenced |-> JFail]

\* an external call, as the history records it
Call(op, idx, section, ok) == <<op, idx, section, ok>>

Init ==
    /\ api_key \in {None, "", "key"}
    /\ registry \in Registries
    /\ pc = "setup"
    /\ i = 0
    /\ sec = None
    /\ resort_data = NoResort
    /\ results = NoResults
    /\ html = None
    /\ resp_text = <<>>
    /\ playwright = FALSE
    /\ browser = "none"
    /\ content = None
    /\ held = 0
    /\ clock = 0
    /\ file = PriorFile
    /\ calls = <<>>
    /\ cj = CjOff

(***************************************************************************)
(* setup_ai and the start of main.                                         *)
(***************************************************************************)
\* faulty variant of KeyMissing: "if api_key is None:"
KeyIsNone(k) == k = None

\* "if not api_key:"
KeyMissing(k) == ~Truthy(k)

\* time.strftime("%Y-%m-%dT%H:%M:%SZ", time.gmtime()): the text of a reading
strftime(t) == <<t>>

SetupAI ==
    /\ pc = "setup"
    /\ pc' = IF KeyMissing(api_key) THEN "exit1" ELSE "results"
    /\ UNCHANGED <<api_key, registry, i, sec, resort_data, results, html,
                   resp_text, playwright, browser, content, held, clock, file, calls, cj>>

InitResults ==
    /\ pc = "results"
    /\ results' = [last_updated |-> strftime(clock), resorts |-> <<>>]
    /\ pc' = "loop"
    /\ UNCHANGED <<api_key, registry, i, sec, resort_data, html, resp_text,
                   playwright, browser, content, held, clock,
                   file, calls, cj>>

(***************************************************************************)
(* The resort loop of main.                                                *)
(***************************************************************************)
UrlOf(resort, section) ==
    IF section = "lifts" THEN resort.lift_url ELSE resort.weather_url

\* faulty variant of UrlPresent: "if "lift_url" in resort:"
UrlKeyPresent(resort, section) == UrlOf(resort, section) # None

\* resort.get("lift_url") / resort.get("weather_url") as a condition
UrlPresent(resort, section) == Truthy(UrlOf(resort, section))

\* the resort_data main starts a resort with
FreshResort(resort) ==
    [id |-> resort["id"], name |-> resort["name"],
     lifts |-> EmptyList, weather |-> EmptyList]

\* where main goes on after a section
AfterSection(section) == IF section = "lifts" THEN "weather_check" ELSE "append"

\* faulty variant of Caught: no try around the section, the error ends main
Uncaught(section) == "crashed"

\* "except Exception as e:" of a section: the error is printed and main goes on
Caught(section) == AfterSection(section)

\* "for resort in RESORTS:" takes the next resort or leaves the loop
LoopNext ==
    /\ pc = "loop"
    /\ IF i < Len(registry)
       THEN /\ i' = i + 1
            /\ resort_data' = FreshResort(registry[i + 1])
            /\ pc' = "lift_check"
       ELSE /\ pc' = "makedirs"
            /\ UNCHANGED <<i, resort_data>>
    /\ UNCHANGED <<api_key, registry, sec, results, html, resp_text, playwright,
                   browser, content, held, clock, file, calls, cj>>

\* "if resort.get(...):" of the lift or the weather section
SectionCheck ==
    /\ pc \in {"lift_check", "weather_check"}
    /\ LET section == IF pc = "lift_check" THEN "lifts" ELSE "weather"
       IN  /\ sec' = section
           /\ pc' = IF UrlPresent(registry[i], section)
                    THEN "f_enter"
                    ELSE AfterSection(section)
    /\ UNCHANGED <<api_key, registry, i, resort_data, results, html, resp_text,
                   playwright, browser, content, held, clock,
                   file, calls, cj>>

(***************************************************************************)
(* fetch_html_with_browser.                                                *)
(***************************************************************************)
\* faulty variant of PlaywrightExit: the driver is started without a with block and
\* nothing stops it when an error passes
PlaywrightExitLeaks(b, h) == h

\* leaving "with sync_playwright() as p:": the driver stops and a browser it
\* launched that is still open goes down with it
PlaywrightExit(b, h) == IF b = "open" THEN h - 1 ELSE h

\* "with sync_playwright() as p:" entered
FetchEnter ==
    /\ pc = "f_enter"
    /\ playwright' = TRUE
    /\ pc' = "f_launch"
    /\ UNCHANGED <<api_key, registry, i, sec, resort_data, results, html,
                   resp_text, browser, content, held, clock, file,
                   calls, cj>>

\* p.chromium.launch(headless=True)
FetchLaunch ==
    /\ pc = "f_launch"
    /\ browser' = "open"
    /\ held' = held + 1
    /\ pc' = "f_goto"
    /\ UNCHANGED <<api_key, registry, i, sec, resort_data, results, html,
                   resp_text, playwright, content, clock, file,
                   calls, cj>>

\* new_page, the headers and page.goto returned
FetchGoto ==
    /\ pc = "f_goto"
    /\ pc' = "f_content"
    /\ UNCHANGED <<api_key, registry, i, sec, resort_data, results, html,
                   resp_text, playwright, browser, content, held, clock, file, calls, cj>>

\* time.sleep(5) and page.content()
FetchContent ==
    /\ pc = "f_content"
    /\ clock' = clock + SettleDelay
    /\ content' \in Pages
    /\ pc' = "f_close"
    /\ UNCHANGED <<api_key, registry, i, sec, resort_data, results, html,
                   resp_text, playwright, browser, held, file,
                   calls, cj>>

\* browser.close(), "return content" through the end of the with block
FetchReturn ==
    /\ pc = "f_close"
    /\ held' = PlaywrightExit("closed", held - 1)
    /\ playwright' = FALSE
    /\ html' = content
    /\ browser' = "none"
    /\ content' = None
    /\ calls' = Append(calls, Call("fetch", i, sec, TRUE))
    /\ pc' = "have_html"
    /\ UNCHANGED <<api_key, registry, i, sec, resort_data, results, resp_text,
                   clock, file, cj>>

\* the step main is at inside the fetch raises: the with block is left, the
\* error is printed and None returned
FetchRaise ==
    /\ pc \in {"f_enter", "f_launch", "f_goto", "f_content", "f_close"}
    /\ held' = PlaywrightExit(browser, held)
    /\ playwright' = FALSE
    /\ html' = None
    /\ browser' = "none"
    /\ content' = None
    /\ calls' = Append(calls, Call("fetch", i, sec, FALSE))
    /\ pc' = "have_html"
    /\ UNCHANGED <<api_key, registry, i, sec, resort_data, results, resp_text,
                   clock, file, cj>>

(***************************************************************************)
(* The section after the fetch: completion, clean-up and decode.           *)
(***************************************************************************)
\* faulty variant of HtmlPresent: no "if html:" before the completion
HtmlAny(h) == TRUE

\* "if html:"
HtmlPresent(h) == Truthy(h)

HtmlCheck ==
    /\ pc = "have_html"
    /\ pc' = IF HtmlPresent(html) THEN "complete" ELSE AfterSection(sec)
    /\ UNCHANGED <<api_key, registry, i, sec, resort_data, results, html,
                   resp_text, playwright, browser, content, held, clock, file, calls, cj>>

\* model.generate_content(prompt) returned; <<>> is a response without text
GenerateOk ==
    /\ pc = "complete"
    /\ resp_text' \in SampleTexts \cup {<<>>}
    /\ calls' = Append(calls, Call("complete", i, sec, TRUE))
    /\ pc' = "decode"
    /\ UNCHANGED <<api_key, registry, i, sec, resort_data, results, html,
                   playwright, browser, content, held, clock,
                   file, cj>>

\* model.generate_content(prompt) or resp.text raised
GenerateRaise ==
    /\ pc = "complete"
    /\ calls' = Append(calls, Call("complete", i, sec, TRUE))
    /\ pc' = Caught(sec)
    /\ UNCHANGED <<api_key, registry, i, sec, resort_data, results, html,
                   resp_text, playwright, browser, content, held, clock, file, cj>>

\* faulty variant of DecodeInto: json.loads replaced by a decoder that returns None
\* for a text it cannot decode
DecodeIntoOrNone(rd, section, text) ==
    IF text = <<>> THEN rd
    ELSE With(json_loads(clean_json(text)), LAMBDA r :
            [rd EXCEPT ![section] = IF r.ok THEN r.val ELSE JVal("null", <<>>)])

\* "if resp.text:" ... resort_data[section] = json.loads(clean_json(resp.text)),
\* left alone on JSONDecodeError
DecodeInto(rd, section, text) ==
    IF text = <<>> THEN rd
    ELSE With(json_loads(clean_json(text)), LAMBDA r :
            IF r.ok THEN [rd EXCEPT ![section] = r.val] ELSE rd)

\* json.loads(clean_json(resp.text)) returned
Decodes(text) == json_loads(clean_json(text)).ok

\* the print of len(resort_data[section]) after the assignment raises TypeError
LenRaises(rd, section, text) ==
    /\ text # <<>>
    /\ Decodes(text)
    /\ ~HasLen(rd[section])

Decode ==
    /\ pc = "decode"
    /\ LET rd == DecodeInto(resort_data, sec, resp_text)
       IN  /\ resort_data' = rd
           /\ pc' = IF LenRaises(rd, sec, resp_text)
                    THEN Caught(sec)
                    ELSE AfterSection(sec)
    /\ calls' = IF resp_text = <<>> THEN calls
                ELSE Append(calls, Call("loads", i, sec, Decodes(resp_text)))
    /\ resp_text' = <<>>
    /\ UNCHANGED <<api_key, registry, i, sec, results, html, playwright,
                   browser, content, held, clock, file, cj>>

\* faulty variant of AppendEntry: a resort with no data is left out
AppendEntryWithData(res, rd) ==
    IF rd.lifts = EmptyList /\ rd.weather = EmptyList
    THEN res
    ELSE [res EXCEPT !.resorts = Append(@, rd)]

\* results["resorts"].append(resort_data)
AppendEntry(res, rd) == [res EXCEPT !.resorts = Append(@, rd)]

AppendResort ==
    /\ pc = "append"
    /\ results' = AppendEntry(results, resort_data)
    /\ pc' = "loop"
    /\ UNCHANGED <<api_key, registry, i, sec, resort_data, html, resp_text,
                   playwright, browser, content, held, clock,
                   file, calls, cj>>

(***************************************************************************)
(* The write of OUTPUT_FILE.                                               *)
(***************************************************************************)
\* os.makedirs(os.path.dirname(OUTPUT_FILE), exist_ok=True): the directory
\* of the earlier output is there, nothing is created
Makedirs ==
    /\ pc = "makedirs"
    /\ \E ok \in BOOLEAN :
          /\ calls' = Append(calls, Call("makedirs", 0, None, ok))
          /\ pc' = IF ok THEN "open" ELSE "crashed"
    /\ UNCHANGED <<api_key, registry, i, sec, resort_data, results, html,
                   resp_text, playwright, browser, content, held, clock,
                   file, cj>>

\* open(OUTPUT_FILE, "w"): the file is created or truncated
OpenFile ==
    /\ pc = "open"
    /\ \E ok \in BOOLEAN :
          /\ calls' = Append(calls, Call("open", 0, None, ok))
          /\ file' = IF ok THEN [kind |-> "truncated", doc |-> NoResults] ELSE file
          /\ pc' = IF ok THEN "dump" ELSE "crashed"
    /\ UNCHANGED <<api_key, registry, i, sec, resort_data, results, html,
                   resp_text, playwright, browser, content, held, clock, cj>>

\* faulty variant of Dump: last_updated is stamped when the file is written
DumpRestamped ==
    /\ pc = "dump"
    /\ results' = [results EXCEPT !.last_updated = strftime(clock)]
    /\ \E ok \in BOOLEAN :
          /\ calls' = Append(calls, Call("dump", 0, None, ok))
          /\ file' = IF ok THEN [kind |-> "snapshot", doc |-> results'] ELSE file
          /\ pc' = IF ok THEN "done" ELSE "crashed"
    /\ UNCHANGED <<api_key, registry, i, sec, resort_data, html, resp_text,
                   playwright, browser, content, held, clock, cj>>

\* json.dump(results, f, indent=2) and the close of the file
Dump ==
    /\ pc = "dump"
    /\ \E ok \in BOOLEAN :
          /\ calls' = Append(calls, Call("dump", 0, None, ok))
          /\ file' = IF ok THEN [kind |-> "snapshot", doc |-> results] ELSE file
          /\ pc' = IF ok THEN "done" ELSE "crashed"
    /\ UNCHANGED <<api_key, registry, i, sec, resort_data, results, html,
                   resp_text, playwright, browser, content, held, clock, cj>>

Next ==
    \/ SetupAI
    \/ InitResults
    \/ LoopNext
    \/ SectionCheck
    \/ FetchEnter
    \/ FetchLaunch
    \/ FetchGoto
    \/ FetchContent
    \/ FetchReturn
    \/ FetchRaise
    \/ HtmlCheck
    \/ GenerateOk
    \/ GenerateRaise
    \/ Decode
    \/ AppendResort
    \/ Makedirs
    \/ OpenFile
    \/ Dump

Spec == Init /\ [][Next]_vars

\* the registries in which every resort has both URLs
FullRegistries ==
    {r \in Registries :
        \A k \in 1..Len(r) : Truthy(r[k].lift_url) /\ Truthy(r[k].weather_url)}

\* the start of a run over a registry whose resorts have both URLs
FairInit == Init /\ registry \in FullRegistries

\* every call main makes returns or raises: a run that can take a step does.
\* The runs are those over the registries whose sections are all processed.
FairSpec ==
    /\ FairInit
    /\ [][Next]_vars
    /\ WF_vars(Next)

(***************************************************************************)
(* clean_json on its own: applied once, applied to its own result, and     *)
(* applied to a text wrapped in a json fence before the decode.            *)
(***************************************************************************)
\* pieces the texts are built from
Chunks ==
    { <<"[", Q>>, <<Q, "]">>, Fence, FenceJson, <<BQ>>, <<"x">>, <<"\n">> }

RECURSIVE Flatten(_)
Flatten(cs) == IF cs = <<>> THEN <<>> ELSE Head(cs) \o Flatten(Tail(cs))

ChunkTexts ==
    {Flatten(cs) : cs \in UNION {[1..n -> Chunks] : n \in 0..MaxChunks}}

\* a payload in a json fence: the opener, a line break, the payload, a line
\* break, the closer
Wrap(payload) == FenceJson \o <<"\n">> \o payload \o <<"\n">> \o Fence

CleanInit ==
    /\ cj \in [pc : {"start"}, text : ChunkTexts, once : {<<>>}, twice : {<<>>},
                direct : {JFail}, fenced : {JFail}]
    /\ api_key = None
    /\ registry = <<>>
    /\ pc = "off"
    /\ i = 0
    /\ sec = None
    /\ resort_data = NoResort
    /\ results = NoResults
    /\ html = None
    /\ resp_text = <<>>
    /\ playwright = FALSE
    /\ browser = "none"
    /\ content = None
    /\ held = 0
    /\ clock = 0
    /\ file = PriorFile
    /\ calls = <<>>

main_vars == <<api_key, registry, pc, i, sec, resort_data, results, html,
               resp_text, playwright, browser, content, held, clock, file, calls>>

CleanOnce ==
    /\ cj.pc = "start"
    /\ cj' = [cj EXCEPT !.pc = "once", !.once = clean_json(cj.text)]
    /\ UNCHANGED main_vars

CleanTwice ==
    /\ cj.pc = "once"
    /\ cj' = [cj EXCEPT !.pc = "twice", !.twice = clean_json(cj.once)]
    /\ UNCHANGED main_vars

DecodeBoth ==
    /\ cj.pc = "twice"
    /\ cj' = [cj EXCEPT !.pc = "done",
                        !.direct = json_loads(cj.text),
                        !.fenced = json_loads(clean_json(Wrap(cj.text)))]
    /\ UNCHANGED main_vars

CleanNext == CleanOnce \/ CleanTwice \/ DecodeBoth

CleanSpec == CleanInit /\ [][CleanNext]_vars
(***************************************************************************)
(* Vocabulary of the properties.                                           *)
(***************************************************************************)
Sections == {"lifts", "weather"}

\* the call c was made, and how many times
Has(c) == \E k \in 1..Len(calls) : calls[k] = c

Count(c) == Cardinality({k \in 1..Len(calls) : calls[k] = c})

\* the fetch for section s of the j-th resort returned a page, or None
FetchOk(j, s) == Has(Call("fetch", j, s, TRUE))

FetchFailed(j, s) == Has(Call("fetch", j, s, FALSE))

\* a completion was asked for in section s of the j-th resort
Completed(j, s) == Has(Call("complete", j, s, TRUE))

\* json.loads returned, or raised JSONDecodeError, in section s of the j-th
\* resort
DecodeOk(j, s) == Has(Call("loads", j, s, TRUE))

DecodeFailed(j, s) == Has(Call("loads", j, s, FALSE))

\* main is inside the loop body of the j-th resort
InProgress(j) ==
    /\ j = i
    /\ pc \notin {"off", "setup", "results", "exit1", "loop", "makedirs", "open",
                  "dump", "done", "crashed"}

\* the resorts main has an entry for, and the entry of each
Started(j) == j <= Len(results.resorts) \/ InProgress(j)

EntryOf(j) == IF j <= Len(results.resorts) THEN results.resorts[j] ELSE resort_data

\* main has left the resort loop
AtWrite == pc \in {"makedirs", "open", "dump", "done", "crashed"}

\* every resort entry the program holds or has written
AllEntries ==
    {results.resorts[j] : j \in 1..Len(results.resorts)}
        \cup {file.doc.resorts[j] : j \in 1..Len(file.doc.resorts)}
        \cup (IF InProgress(i) \/ pc = "append" THEN {resort_data} ELSE {})

\* every section that has a URL was fetched once, every other never, and a
\* completion was asked for exactly the sections whose fetch returned a page
AllSectionsProcessed ==
    \A j \in 1..Len(registry) : \A s \in Sections :
        /\ Count(Call("fetch", j, s, TRUE)) + Count(Call("fetch", j, s, FALSE))
              = IF Truthy(UrlOf(registry[j], s)) THEN 1 ELSE 0
        /\ Count(Call("complete", j, s, TRUE)) = IF FetchOk(j, s) THEN 1 ELSE 0

(***************************************************************************)
(* The properties.                                                         *)
(***************************************************************************)
\* C1: when main reaches the write, results.resorts holds exactly one entry
\* per registry entry, in registry order, the j-th with the id and the name of
\* the j-th registry entry, whatever the outcomes of the sections were.
C1_OneEntryPerRegistryEntry ==
    AtWrite =>
        /\ Len(results.resorts) = Len(registry)
        /\ \A j \in 1..Len(registry) :
              /\ results.resorts[j].id = registry[j].id
              /\ results.resorts[j].name = registry[j].name

\* C1 witness: a finished run over two resorts in which a fetch failed, a
\* completion raised or had no text, and a decode failed.
C1_Witness ==
    /\ pc = "done"
    /\ Len(registry) >= 2
    /\ \E j \in 1..Len(registry) : \E s \in Sections : FetchFailed(j, s)
    /\ \E j \in 1..Len(registry) : \E s \in Sections : DecodeFailed(j, s)
    /\ \E j \in 1..Len(registry) : \E s \in Sections :
          Completed(j, s) /\ ~DecodeOk(j, s) /\ ~DecodeFailed(j, s)
    /\ file.doc = results

\* C2: in every state, and in the written file, lifts and weather of every
\* resort entry are lists, whatever text the completion service returned.
C2_SectionsAreLists ==
    \A e \in AllEntries : IsList(e.lifts) /\ IsList(e.weather)

\* C3: a section whose fetch returned None gets no completion call and stays
\* [] in the entry of its resort; after the loop every resort has its entry,
\* and when main leaves the loop every section with a URL, of every resort,
\* has been fetched once and completed if its fetch returned a page.
C3_FetchFailureContained ==
    /\ \A k \in 1..Len(calls) :
          (calls[k][1] = "fetch" /\ ~calls[k][4]) =>
              /\ ~Completed(calls[k][2], calls[k][3])
              /\ Started(calls[k][2])
              /\ EntryOf(calls[k][2])[calls[k][3]] = EmptyList
    /\ AtWrite => Len(results.resorts) = Len(registry)
    /\ pc = "makedirs" => AllSectionsProcessed

\* C3 witness: a finished run in which both fetches of the first resort failed
\* and the second resort got its lifts.
C3_Witness ==
    /\ pc = "done"
    /\ Len(registry) >= 2
    /\ FetchFailed(1, "lifts") /\ FetchFailed(1, "weather")
    /\ file.doc.resorts[1].lifts = EmptyList
    /\ file.doc.resorts[1].weather = EmptyList
    /\ file.doc.resorts[2].lifts # EmptyList

\* C4: a section whose cleaned completion text is not valid JSON stays []; after
\* the loop every resort has its entry, and when main leaves the loop every
\* section with a URL of every resort, the other section of the same resort
\* among them, has been fetched; main is never ended by the decode error.
C4_DecodeFailureContained ==
    /\ \A k \in 1..Len(calls) :
          (calls[k][1] = "loads" /\ ~calls[k][4]) =>
              /\ Started(calls[k][2])
              /\ EntryOf(calls[k][2])[calls[k][3]] = EmptyList
    /\ AtWrite => Len(results.resorts) = Len(registry)
    /\ pc = "makedirs" => AllSectionsProcessed
    /\ pc = "crashed" => Len(calls) > 0 /\ calls[Len(calls)][1] \in {"makedirs", "open", "dump"}

\* C4 witness: a finished run in which the lift text of the first resort did
\* not decode, its weather was extracted and the second resort got its lifts.
C4_Witness ==
    /\ pc = "done"
    /\ Len(registry) >= 2
    /\ DecodeFailed(1, "lifts")
    /\ file.doc.resorts[1].lifts = EmptyList
    /\ file.doc.resorts[1].weather # EmptyList
    /\ file.doc.resorts[2].lifts # EmptyList

\* C5: a section whose URL is missing or empty is never fetched, gets no
\* completion call and stays [], and once the loop is left every section that
\* has a URL has been fetched, whatever the URL of the other section is.
C5_AbsentUrlSkipsSection ==
    /\ \A k \in 1..Len(calls) :
          calls[k][1] \in {"fetch", "complete"} =>
              UrlOf(registry[calls[k][2]], calls[k][3]) \notin {None, ""}
    /\ \A j \in 1..Len(registry) : \A s \in Sections :
          (UrlOf(registry[j], s) \in {None, ""} /\ Started(j)) =>
              EntryOf(j)[s] = EmptyList
    /\ AtWrite =>
          \A j \in 1..Len(registry) : \A s \in Sections :
              Truthy(UrlOf(registry[j], s)) => FetchOk(j, s) \/ FetchFailed(j, s)

\* C5 witness: a finished run over a resort with an empty lift_url whose
\* weather was extracted, and a resort with no weather_url whose lifts were.
C5_Witness ==
    /\ pc = "done"
    /\ Len(registry) >= 2
    /\ registry[1].lift_url = ""
    /\ file.doc.resorts[1].lifts = EmptyList
    /\ file.doc.resorts[1].weather # EmptyList
    /\ registry[2].weather_url = None
    /\ file.doc.resorts[2].lifts # EmptyList
    /\ file.doc.resorts[2].weather = EmptyList

\* C6: clean_json applied to a valid JSON array wrapped in a json fence decodes
\* to what the array decodes to, fence markers inside its strings included,
\* and clean_json applied twice gives what it gives applied once.
C6_FenceStrippingLosslessIdempotent ==
    cj.pc = "done" =>
        /\ cj.twice = cj.once
        /\ (cj.direct.ok /\ IsList(cj.direct.val)) =>
              (cj.fenced.ok /\ cj.fenced.val = cj.direct.val)

\* C7: last_updated is the reading of the clock at the start of the run (the
\* clock reads 0 when the process starts): it is set before any call is made,
\* never changes afterwards, and is what the written file holds.
C7_StampedAtStart ==
    /\ [](pc = "results" => calls = <<>>)
    /\ [][pc # "results" => results'.last_updated = results.last_updated]_vars
    /\ [](pc \notin {"off", "setup", "results", "exit1"}
            => results.last_updated = strftime(0))
    /\ [](file.kind = "snapshot" => file.doc.last_updated = strftime(0))

\* C7 witness: a written file of a run in which two fetches took their time.
C7_Witness ==
    /\ pc = "done"
    /\ file.kind = "snapshot"
    /\ clock >= 2 * SettleDelay
    /\ file.doc.last_updated = strftime(0)

\* C8: with GEMINI_API_KEY missing or empty the run ends with exit status 1 and
\* has done nothing: no fetch, no completion, no makedirs, no write; the
\* earlier output file is as it was.
C8_NoWorkWithoutCredential ==
    (pc # "off" /\ api_key \in {None, ""}) =>
        /\ pc \in {"setup", "exit1"}
        /\ calls = <<>>
        /\ file = PriorFile
        /\ results = NoResults
        /\ held = 0 /\ ~playwright

\* C8 witness: the run has ended on an empty credential.
C8_Witness == pc = "exit1" /\ api_key = "" /\ file = PriorFile

\* the write is attempted when main calls os.makedirs for the output file
WriteAttempts ==
    Count(Call("makedirs", 0, None, TRUE)) + Count(Call("makedirs", 0, None, FALSE))

\* C9: with the credential present every run gets to attempt the write, attempts
\* it once at most and only after every registry entry has its entry appended;
\* a run that ends with an error ended in setup_ai or in the write.
C9_WriteAttemptedOnce ==
    /\ (pc = "setup" /\ Truthy(api_key)) ~> (WriteAttempts = 1)
    /\ [](WriteAttempts <= 1)
    /\ [](WriteAttempts = 1 =>
            i = Len(registry) /\ Len(results.resorts) = Len(registry))
    /\ [](pc = "exit1" => ~Truthy(api_key))
    /\ [](pc = "crashed" =>
            /\ WriteAttempts = 1
            /\ calls[Len(calls)][1] \in {"makedirs", "open", "dump"}
            /\ ~calls[Len(calls)][4])

\* C9 witness: the write is attempted after a run in which every section of
\* two resorts failed, each in its own way.
C9_Witness ==
    /\ WriteAttempts = 1
    /\ Len(registry) >= 2
    /\ FetchFailed(1, "lifts")
    /\ DecodeFailed(1, "weather")
    /\ Completed(2, "lifts") /\ ~DecodeOk(2, "lifts") /\ ~DecodeFailed(2, "lifts")
    /\ FetchFailed(2, "weather")

\* the positions of main inside fetch_html_with_browser
FetchPcs == {"f_enter", "f_launch", "f_goto", "f_content", "f_close"}

\* C10: outside fetch_html_with_browser no browser is held and no driver runs,
\* whichever way the call was left; none is held when a fetch starts, and
\* never more than one is.
C10_BrowserReleased ==
    /\ pc \notin FetchPcs => held = 0 /\ ~playwright /\ browser = "none"
    /\ pc = "f_enter" => held = 0 /\ ~playwright
    /\ held <= 1

\* C10 witness: the first fetch has returned None after its browser was
\* launched and the page captured (the clock shows the settle delay), and no
\* browser is held.
C10_Witness ==
    /\ pc = "have_html"
    /\ calls = <<Call("fetch", 1, "lifts", FALSE)>>
    /\ clock = SettleDelay
    /\ held = 0

=============================================================================
